---- MODULE Spec2Model ----
(***************************************************************************)
(* Model of the book generator: the TableOfContents data model             *)
(* (src/src/table_of_contents.py), the BookWriter output document          *)
(* (src/src/book_writer.py) and the BookGenerator session                  *)
(* (src/src/book_generator.py).                                            *)
(*                                                                         *)
(* JSON texts are modelled by the value json.loads gives for them:         *)
(*   [kind |-> "syntax"]       not JSON at all (JSONDecodeError)           *)
(*   [kind |-> "scalar"]       a top-level number, null or boolean         *)
(*   [kind |-> "emptyobject"]  the top-level object {}                     *)
(*   [kind |-> "object"]       a top-level object with at least one key    *)
(*   [kind |-> "array"]        a top-level array, items being its elements *)
(* A chapter object is a record whose DOMAIN is the set of keys present.   *)
(* A subchapter entry is tagged with its JSON type: [t |-> "str", v |-> s] *)
(* or [t |-> "num", v |-> s].                                              *)
(***************************************************************************)
EXTENDS Integers, Sequences, FiniteSets, TLC

\* Bounds of the model.
MaxChapters == 2
MaxSubs == 2
MaxLoads == 2
MaxTocCalls == 2
MaxText == 3
MaxPasses == 2
MaxLiveChapters == 2
MaxLiveSubs == 1

\* Optional values: Python's None and a present value.
None == <<>>
Some(x) == <<x>>
IsNone(o) == o = <<>>
IsSome(o) == o # <<>>
Val(o) == o[1]

----------------------------------------------------------------------------
\* Inputs

BookTitles == {"", "My Book"}

JStr(s) == [t |-> "str", v |-> s]
JNum(s) == [t |-> "num", v |-> s]

SubTitle(k) == "S" \o ToString(k)
SubList(n) == [k \in 1..n |-> JStr(SubTitle(k))]

\* The object {}: no title, no subchapters, no number.
EmptyObj == [x \in {} |-> 0]

\* Chapter objects that json.loads may hand to the parser: titled chapters of
\* every subchapter count without a number, the empty object, a blank title
\* with number 1, and a chapter carrying the number 5.
GoodObjs ==
    {[title |-> "A", subchapters |-> SubList(n)] : n \in 0..MaxSubs}
    \cup {EmptyObj,
          [title |-> "", subchapters |-> <<>>, number |-> 1],
          [title |-> "A", subchapters |-> SubList(1), number |-> 5]}

\* A chapter object with a subchapter entry that is not a string.
BadObj == [title |-> "A", subchapters |-> <<JStr("S1"), JNum("7")>>]

JArray(items) == [kind |-> "array", items |-> items]
JOther(k) == [kind |-> k, items |-> <<>>]

ArrayDocs == {JArray(s) : s \in UNION {[1..n -> GoodObjs] : n \in 0..MaxChapters}}
BadArrayDocs == {JArray(<<BadObj>>), JArray(<<[title |-> "A", subchapters |-> <<>>], BadObj>>)}
NonArrayDocs == {JOther("syntax"), JOther("scalar"), JOther("emptyobject"), JOther("object")}
Docs == ArrayDocs \cup BadArrayDocs \cup NonArrayDocs

\* Texts a session meets (the content source's TOC answer, the edited .json
\* file): every array of titled chapters, every one-chapter array, and the
\* malformed ones.
ShapeObjs == {[title |-> "A", subchapters |-> SubList(n)] : n \in 0..MaxSubs}
SessionDocs ==
    {JArray(s) : s \in UNION {[1..n -> ShapeObjs] : n \in 0..MaxChapters}}
    \cup {JArray(<<o>>) : o \in GoodObjs}
    \cup BadArrayDocs \cup NonArrayDocs

----------------------------------------------------------------------------
\* table_of_contents.py

\* dict.get(key, default)
Get(obj, key, default) == IF key \in DOMAIN obj THEN obj[key] ELSE default

IsBlank(s) == s \in {"", " "}

\* A Chapter that keeps the title it was given.
DefaultTitle_KeepsBlank(title, number) == title

\* Chapter.__post_init__: the title placeholder.
DefaultTitle(title, number) ==
    IF IsBlank(title)
    THEN (IF number > 0 THEN "Chapter " \o ToString(number) ELSE "Untitled Chapter")
    ELSE title

\* Chapter.__post_init__: every subchapter entry is a string.
AllStrings(subs) == \A k \in 1..Len(subs) : subs[k].t = "str"

\* The Chapter built from one object; defined when AllStrings holds.
Chapter(title, subs, number) ==
    [title |-> DefaultTitle(title, number),
     subchapters |-> [k \in 1..Len(subs) |-> subs[k].v],
     number |-> number]

Ok(chs) == [out |-> "ok", code |-> "", chapters |-> chs]
Err(out, code) == [out |-> out, code |-> code, chapters |-> <<>>]

\* A build in which Chapter does not look at its subchapter entries.
BuildError_NoSubchapterCheck(doc) ==
    CASE doc.kind = "scalar" -> "TypeError"
      [] doc.kind = "object" -> "AttributeError"
      [] doc.kind = "emptyobject" -> "ok"
      [] doc.kind = "array" -> "ok"

\* What iterating the loaded JSON value and building the chapters raises
\* outside the json.JSONDecodeError handler, "ok" when nothing is raised.
BuildError(doc) ==
    CASE doc.kind = "scalar" -> "TypeError"
      [] doc.kind = "object" -> "AttributeError"
      [] doc.kind = "emptyobject" -> "ok"
      [] doc.kind = "array" ->
            IF \A i \in 1..Len(doc.items) : AllStrings(Get(doc.items[i], "subchapters", <<>>))
            THEN "ok" ELSE "ValueError"

\* A numbering pass that leaves the constructor's default number in place.
AssignNumbers_Unnumbered(chs) == chs

\* A numbering pass that counts from 0.
AssignNumbers_FromZero(chs) == [i \in 1..Len(chs) |-> [chs[i] EXCEPT !.number = i - 1]]

\* _assign_numbers
AssignNumbers(chs) == [i \in 1..Len(chs) |-> [chs[i] EXCEPT !.number = i]]

\* TableOfContents._parse_toc: chapters are built without the number key.
ParseToc(doc) ==
    IF doc.kind = "syntax" THEN Err("BookGenerationError", "TOC_PARSE_ERROR")
    ELSE IF BuildError(doc) # "ok" THEN Err(BuildError(doc), "")
    ELSE Ok([i \in 1..Len(doc.items) |->
               Chapter(Get(doc.items[i], "title", ""),
                       Get(doc.items[i], "subchapters", <<>>), 0)])

\* A constructor that numbers from 0, as enumerate does by default.
NewToc_ZeroBased(doc) ==
    LET r == ParseToc(doc) IN
    IF r.out = "ok"
    THEN Ok([i \in 1..Len(r.chapters) |-> [r.chapters[i] EXCEPT !.number = i - 1]])
    ELSE r

\* TableOfContents.__init__: _parse_toc, then _assign_numbers.
NewToc(doc) ==
    LET r == ParseToc(doc) IN
    IF r.out = "ok" THEN Ok(AssignNumbers(r.chapters)) ELSE r

\* A reload that renumbers by position, as the constructor does.
UpdateFromJson_Renumbering(doc) ==
    IF doc.kind = "syntax" THEN Err("BookGenerationError", "TOC_UPDATE_ERROR")
    ELSE IF BuildError(doc) # "ok" THEN Err(BuildError(doc), "")
    ELSE Ok(AssignNumbers([i \in 1..Len(doc.items) |->
               Chapter(Get(doc.items[i], "title", ""),
                       Get(doc.items[i], "subchapters", <<>>),
                       Get(doc.items[i], "number", 0))]))

\* TableOfContents.update_from_json: the chapters it would assign.
UpdateFromJson(doc) ==
    IF doc.kind = "syntax" THEN Err("BookGenerationError", "TOC_UPDATE_ERROR")
    ELSE IF BuildError(doc) # "ok" THEN Err(BuildError(doc), "")
    ELSE Ok([i \in 1..Len(doc.items) |->
               Chapter(Get(doc.items[i], "title", ""),
                       Get(doc.items[i], "subchapters", <<>>),
                       Get(doc.items[i], "number", 0))])

\* A rendering that counts the subchapters of a chapter from 0.
ChapterLines_ZeroBased(ch) ==
    <<[n |-> ch.number, k |-> 0, text |-> ch.title]>>
    \o [k \in 1..Len(ch.subchapters) |->
          [n |-> ch.number, k |-> k - 1, text |-> ch.subchapters[k]]]

\* to_markdown / chapter_toc: one line per chapter and per subchapter; a line
\* is [n, k, text] linking to chapter-<n> (k = 0) or chapter-<n>-<k>.
ChapterLines(ch) ==
    <<[n |-> ch.number, k |-> 0, text |-> ch.title]>>
    \o [k \in 1..Len(ch.subchapters) |->
          [n |-> ch.number, k |-> k, text |-> ch.subchapters[k]]]

RECURSIVE ToMarkdown(_)
ToMarkdown(chs) ==
    IF chs = <<>> THEN <<>> ELSE ChapterLines(Head(chs)) \o ToMarkdown(Tail(chs))

\* to_json
\* A to_json that leaves the chapter numbers out.
ToJson_NoNumber(chs) ==
    JArray([i \in 1..Len(chs) |->
              [title |-> chs[i].title,
               subchapters |-> [k \in 1..Len(chs[i].subchapters) |-> JStr(chs[i].subchapters[k])]]])

ToJson(chs) ==
    JArray([i \in 1..Len(chs) |->
              [title |-> chs[i].title,
               subchapters |-> [k \in 1..Len(chs[i].subchapters) |-> JStr(chs[i].subchapters[k])],
               number |-> chs[i].number]])

----------------------------------------------------------------------------
\* table_of_contents.py: _clean_response.  A text is a sequence of tokens:
\* "fence" for three backticks, the language tags the pattern knows, a space,
\* a newline, and "x" for any other character.

VARIABLES
    raw_content,  \* the text handed to _clean_response
    payload,      \* the inner text that raw_content was made from
    wrapper,      \* how: the fence put around payload and the whitespace added
    cleaned,      \* what _clean_response returned for raw_content
    passes        \* how many times the text has been through _clean_response

cleanVars == <<raw_content, payload, wrapper, cleaned, passes>>

Fence == "fence"
LangTags == {"json", "python"}
Whitespace == {" ", "\n"}
Tokens == {Fence, " ", "\n", "x"} \cup LangTags

Texts == UNION {[1..n -> Tokens] : n \in 0..MaxText}

\* str.strip() and its halves
RECURSIVE LStrip(_)
LStrip(t) == IF t # <<>> /\ Head(t) \in Whitespace THEN LStrip(Tail(t)) ELSE t
RECURSIVE RStrip(_)
RStrip(t) ==
    IF t # <<>> /\ t[Len(t)] \in Whitespace THEN RStrip(SubSeq(t, 1, Len(t) - 1)) ELSE t
Strip(t) == RStrip(LStrip(t))

\* ^\s*(?:```(?:json|python)?\s*)? : the text after leading whitespace and,
\* when a fence follows it, after the fence, a language tag right behind the
\* fence, and the whitespace behind that.
AfterOpening(t) ==
    LET a == LStrip(t) IN
    IF a # <<>> /\ Head(a) = Fence
    THEN LET b == Tail(a) IN
         LStrip(IF b # <<>> /\ Head(b) \in LangTags THEN Tail(b) ELSE b)
    ELSE a

\* (.*?)(?:\s*```\s*)?$ : the shortest text that leaves only a closing fence
\* with whitespace around it, or nothing (at most a last newline), to the end.
BeforeClosing(t) ==
    LET r == RStrip(t) IN
    IF r # <<>> /\ r[Len(r)] = Fence THEN SubSeq(r, 1, Len(r) - 1) ELSE t

\* A cleaning that keeps the language tag as part of the text.
CleanResponse_KeepsTag(t) ==
    LET a == LStrip(t) IN
    Strip(BeforeClosing(IF a # <<>> /\ Head(a) = Fence THEN Tail(a) ELSE a))

\* _clean_response: the pattern always matches; group 1, stripped.
CleanResponse(t) == Strip(BeforeClosing(AfterOpening(t)))

\* The ways a payload comes wrapped: in a ```json, ```python or bare fence,
\* with whitespace (or none) between fence and payload, or in no fence; and
\* with whitespace (or none) around the whole.
Gaps == {<<>>, <<" ">>, <<"\n">>}
Opening(kind) ==
    CASE kind = "json" -> <<Fence, "json">>
      [] kind = "python" -> <<Fence, "python">>
      [] kind = "bare" -> <<Fence>>
Wrappers ==
    [kind : {"json", "python", "bare"}, pre : Gaps, a : Gaps, b : Gaps, post : Gaps]
    \cup [kind : {"none"}, pre : Gaps, a : {<<>>}, b : {<<>>}, post : Gaps]
Wrap(w, p) ==
    IF w.kind = "none" THEN w.pre \o p \o w.post
    ELSE w.pre \o Opening(w.kind) \o w.a \o p \o w.b \o <<Fence>> \o w.post
NoWrapper == [kind |-> "none", pre |-> <<>>, a |-> <<>>, b |-> <<>>, post |-> <<>>]

----------------------------------------------------------------------------
\* book_writer.py

GetFilepath(title) == IF title = "" THEN ".md" ELSE "my_book.md"

----------------------------------------------------------------------------
\* content_generation.py: ContentGenerator.generate_content under its retry
\* decorator.

VARIABLES
    gcPc,            \* "idle", "attempt" (the body is about to run) or "done"
    attempt_number,  \* the retry decorator's count of attempts started
    responses,       \* what self.model.generate_content did, call by call
    outcome,         \* None, or Some(what generate_content returned or raised)
    calls,           \* generate_content calls made so far
    attempts         \* upstream calls made so far, over all generate_content calls

retryVars == <<gcPc, attempt_number, responses, outcome, calls, attempts>>

\* stop_after_attempt(3)
StopAfterAttempt == 3

\* What one upstream call does: it returns a response with one of two
\* texts, raises, or returns a response without candidates or parts (empty,
\* or blocked with a block reason in its prompt feedback).
Upstream ==
    {[kind |-> "text", v |-> "Generated content from Gemini."],
     [kind |-> "text", v |-> "Other generated content."],
     [kind |-> "raises", v |-> "API unavailable"],
     [kind |-> "raises", v |-> "Timeout"],
     [kind |-> "raises", v |-> "Final API error"],
     [kind |-> "empty", v |-> ""],
     [kind |-> "blocked", v |-> "SAFETY"]}

\* str(e) of the exception the try block ends with.
Message(r) ==
    CASE r.kind = "raises" -> r.v
      [] r.kind = "empty" -> "Received an empty response from the Gemini API."
      [] r.kind = "blocked" -> "Content generation blocked. Reason: " \o r.v

\* The except clause: every exception becomes a BookGenerationError.
Wrapped(msg) ==
    [out |-> "BookGenerationError", v |-> "Failed to generate content with Gemini: " \o msg]

\* A body that hands back the text of a response without candidates.
Body_EmptyIsText(r) ==
    IF r.kind \in {"text", "empty", "blocked"}
    THEN [out |-> "text", v |-> IF r.kind = "text" THEN r.v ELSE ""]
    ELSE Wrapped(Message(r))

\* One execution of the body of generate_content.
Body(r) ==
    IF r.kind = "text" THEN [out |-> "text", v |-> r.v] ELSE Wrapped(Message(r))

\* A stop condition that allows a fourth attempt.
Stop_AfterFour(n) == n >= StopAfterAttempt + 1

\* A stop condition that never stops.
Stop_Never(n) == FALSE

\* stop=stop_after_attempt(3): no attempt follows the third.
Stop(n) == n >= StopAfterAttempt

\* reraise=False: the decorator raises its own RetryError.
Reraise_RetryError(errs) == [out |-> "RetryError", v |-> ""]

\* reraise=True: the exception of the last attempt is raised again.
Reraise(errs) == errs[Len(errs)]

----------------------------------------------------------------------------
\* book_generator.py

VARIABLES
    book_title,   \* BookGenerator.book_title (None or Some(title))
    toc,          \* BookGenerator.toc: None or Some(chapters)
    filepath,     \* BookGenerator.filepath
    doc,          \* the markdown file at filepath: a sequence of blocks
    jsonFile,     \* the .json file next to it: None or Some(JSON value)
    input,        \* the JSON value last handed to the parser (construction or reload)
    srcOp,        \* "none", "parse" or "reload": what built them
    log,          \* requests, writes and progress events, in order
    result,       \* outcome of the last BookGenerator call
    tocCalled,    \* generate_toc has been called
    edited,       \* the user has edited the .json file
    ran,          \* generate_book has passed its precondition
    loads,        \* load_toc calls that found a saved file
    prompts,      \* the prompts _generate_chapter handed to generate_content, in order
    inputs,       \* the input() waits main() has entered, in order
    pc, chIdx, subIdx, current_item, total_items

bookVars == <<book_title, toc, filepath, doc, jsonFile, input, srcOp, log, result,
              tocCalled, edited, ran, loads, prompts, inputs, pc, chIdx, subIdx, current_item,
              total_items>>

vars == <<bookVars, retryVars, cleanVars>>

runVars == <<pc, chIdx, subIdx, current_item, total_items>>

Event(ev, pos, n, k, num, den) ==
    [ev |-> ev, pos |-> pos, n |-> n, k |-> k, num |-> num, den |-> den]
Request(kind, pos, n, k) == Event(kind, pos, n, k, 0, 1)
Progress(num, den) == Event("progress", 0, 0, 0, num, den)

Result(op, out, code, ret) == [op |-> op, out |-> out, code |-> code, ret |-> ret]

TocBlock(title, chs) == [blk |-> "toc", title |-> title, lines |-> ToMarkdown(chs)]


ChapterBlock(ch) ==
    [blk |-> "chapter", n |-> ch.number, k |-> 0, title |-> ch.title, lines |-> ChapterLines(ch)]
\* A subchapter block whose anchor counts the subchapters from 0.
SubBlock_ZeroBased(ch, idx) ==
    [blk |-> "subchapter", n |-> ch.number, k |-> idx - 1, title |-> ch.subchapters[idx], lines |-> <<>>]
SubBlock(ch, idx) ==
    [blk |-> "subchapter", n |-> ch.number, k |-> idx, title |-> ch.subchapters[idx], lines |-> <<>>]

\* The prompts of _generate_chapter, as the values their f-strings interpolate:
\* "Chapter {number}: '{title}' in a book titled '{book}'" for the
\* introduction (idx 0, no subchapter title), and "Chapter {number}.{idx}:
\* '{subchapter}' within Chapter {within}: '{title}' in a book titled '{book}'".
IntroPrompt(ch, book) ==
    [kind |-> "intro", number |-> ch.number, idx |-> 0, subchapter |-> "",
     within |-> ch.number, title |-> ch.title, book |-> book]

\* A subchapter prompt that counts the subchapters from 0.
SubPrompt_ZeroBased(ch, idx, book) ==
    [kind |-> "sub", number |-> ch.number, idx |-> idx - 1, subchapter |-> ch.subchapters[idx],
     within |-> ch.number, title |-> ch.title, book |-> book]

\* A subchapter prompt that quotes the text generated last for context.
SubPrompt_QuotesContent(ch, idx, book) ==
    [kind |-> "sub", number |-> ch.number, idx |-> idx, subchapter |-> ch.subchapters[idx],
     within |-> ch.number,
     title |-> IF IsSome(outcome) /\ Val(outcome).out = "text" THEN Val(outcome).v ELSE ch.title,
     book |-> book]

SubPrompt(ch, idx, book) ==
    [kind |-> "sub", number |-> ch.number, idx |-> idx, subchapter |-> ch.subchapters[idx],
     within |-> ch.number, title |-> ch.title, book |-> book]

Init ==
    /\ book_title = None
    /\ toc = None
    /\ filepath = None
    /\ doc = <<>>
    /\ jsonFile = None
    /\ input = JOther("syntax")
    /\ srcOp = "none"
    /\ log = <<>>
    /\ result = Result("init", "ok", "", None)
    /\ tocCalled = FALSE
    /\ edited = FALSE
    /\ ran = FALSE
    /\ loads = 0
    /\ prompts = <<>>
    /\ inputs = <<>>
    /\ pc = "idle"
    /\ chIdx = 0
    /\ subIdx = 0
    /\ current_item = 0
    /\ total_items = 0
    /\ gcPc = "idle"
    /\ attempt_number = 0
    /\ responses = <<>>
    /\ outcome = None
    /\ calls = 0
    /\ attempts = 0
    /\ raw_content = <<>>
    /\ payload = <<>>
    /\ wrapper = NoWrapper
    /\ cleaned = <<>>
    /\ passes = 0

\* The chapters of the TableOfContents, when there is one.
Chapters == Val(toc)

----------------------------------------------------------------------------
\* A TableOfContents object on its own: construction, then reloads.

sessionVars ==
    <<book_title, filepath, doc, jsonFile, log, tocCalled, edited, ran, loads, prompts, inputs,
      runVars, retryVars, cleanVars>>

\* TableOfContents(content)
TocConstruct ==
    /\ result.op = "init"
    /\ \E content \in Docs :
         LET r == NewToc(content) IN
         /\ input' = content
         /\ result' = Result("TableOfContents", r.out, r.code, None)
         /\ IF r.out = "ok"
            THEN toc' = Some(r.chapters) /\ srcOp' = "parse"
            ELSE UNCHANGED <<toc, srcOp>>
    /\ UNCHANGED sessionVars

\* toc.update_from_json(json_data)
TocUpdate ==
    /\ IsSome(toc)
    /\ result.op \in {"TableOfContents", "update_from_json"}
    /\ \E json_data \in Docs :
         LET r == UpdateFromJson(json_data) IN
         /\ input' = json_data
         /\ result' = Result("update_from_json", r.out, r.code, None)
         /\ IF r.out = "ok"
            THEN toc' = Some(r.chapters) /\ srcOp' = "reload"
            ELSE UNCHANGED <<toc, srcOp>>
    /\ UNCHANGED sessionVars

NextToc == TocConstruct \/ TocUpdate

SpecToc == Init /\ [][NextToc]_vars

----------------------------------------------------------------------------
\* Properties of the TableOfContents object (checked under SpecToc).

Positional(chs) == \A i \in 1..Len(chs) : chs[i].number = i

\* The anchors chapter-<n> of the chapter lines of a rendered contents block.
ChapterAnchors(lines) ==
    LET cl == SelectSeq(lines, LAMBDA l : l.k = 0) IN [i \in 1..Len(cl) |-> cl[i].n]

Constructed == result.op = "TableOfContents" /\ result.out = "ok"
Reloaded == result.op = "update_from_json" /\ result.out = "ok"

\* C1: for every valid JSON array of chapter objects, construction gives the
\* chapter built from the i-th object the number i, whatever `number` key the
\* object carries, and to_markdown links to chapter-1 .. chapter-N in array
\* order.
C1_ParseRenumbers ==
    (Constructed /\ input.kind = "array") =>
        /\ Len(Chapters) = Len(input.items)
        /\ \A i \in 1..Len(Chapters) :
             /\ Chapters[i].number = i
             /\ Len(Chapters[i].subchapters) = Len(Get(input.items[i], "subchapters", <<>>))
        /\ ChapterAnchors(ToMarkdown(Chapters)) = [i \in 1..Len(input.items) |-> i]

\* C1 witness: a two-chapter array whose first object carries number 5.
C1_Witness ==
    /\ Constructed /\ input.kind = "array" /\ Len(input.items) = 2
    /\ Get(input.items[1], "number", 0) = 5
    /\ Chapters[1].number = 1 /\ Chapters[2].number = 2

\* C2: a successful update_from_json does not renumber: chapter i carries the
\* `number` key of the i-th object of the edited form (0 when it has none),
\* not its position.
C2_ReloadKeepsNumbers ==
    (Reloaded /\ input.kind = "array") =>
        /\ Len(Chapters) = Len(input.items)
        /\ \A i \in 1..Len(Chapters) :
             /\ "number" \in DOMAIN input.items[i] => Chapters[i].number = input.items[i].number
             /\ "number" \notin DOMAIN input.items[i] => Chapters[i].number = 0

\* C2 witness: a single object with number 5 reloads as chapters[0].number = 5.
C2_Witness ==
    /\ Reloaded /\ input.kind = "array" /\ Len(input.items) = 1
    /\ Get(input.items[1], "number", 0) = 5
    /\ Chapters[1].number = 5

\* The edited form is itself numbered 1..N by position.
InputPositional ==
    /\ input.kind = "array"
    /\ \A i \in 1..Len(input.items) : Get(input.items[i], "number", 0) = i

\* C3 (as claimed): in every state reachable by construction and reloads the
\* chapter numbers are the run 1..N, chapter i numbered i.
C3_AlwaysContiguous == IsSome(toc) => Positional(Chapters)

\* C3 (amended): the chapter numbers are the run 1..N by position as long as
\* the chapters are those the constructor built; right after a successful
\* reload they are the run 1..N exactly when the edited form is numbered so.
C3_ContiguousUntilReload ==
    IsSome(toc) =>
        /\ srcOp = "parse" => Positional(Chapters)
        /\ (Reloaded /\ input.kind = "array") => (Positional(Chapters) <=> InputPositional)

\* C3 witness: two constructed chapters survive a failed reload, still 1, 2.
C3_Witness ==
    /\ IsSome(toc) /\ srcOp = "parse" /\ Len(Chapters) = 2
    /\ result.op = "update_from_json" /\ result.out # "ok"

\* An edited form or TOC answer that is not a JSON array: a syntax error, or
\* well-formed JSON whose top level is something else.
Malformed(d) == d.kind # "array"

\* C4 (as claimed): for every malformed edited form update_from_json fails
\* with BookGenerationError TOC_UPDATE_ERROR and leaves the chapters as they
\* were.
C4_ReloadAllOrNothing ==
    [][(result'.op = "update_from_json" /\ Malformed(input')) =>
          /\ result'.out = "BookGenerationError"
          /\ result'.code = "TOC_UPDATE_ERROR"
          /\ toc' = toc]_vars

\* C5 (as claimed): constructing a TableOfContents from malformed input fails
\* with BookGenerationError TOC_PARSE_ERROR and no object comes to exist.
C5_ParseFailsOnMalformed ==
    (result.op = "TableOfContents" /\ Malformed(input)) =>
        /\ result.out = "BookGenerationError"
        /\ result.code = "TOC_PARSE_ERROR"
        /\ IsNone(toc)

\* The array has a chapter object with a subchapter entry that is not a string.
HasNonString(d) ==
    /\ d.kind = "array"
    /\ \E i \in 1..Len(d.items) : ~AllStrings(Get(d.items[i], "subchapters", <<>>))

\* C23: a text with a non-string subchapter entry is rejected by the
\* constructor and by update_from_json with ValueError: no TableOfContents
\* comes to exist, or the chapters stay as they were; and no chapter ever
\* holds the entry turned into a string.
C23_NonStringRejected ==
    /\ [][HasNonString(input') => (result'.out = "ValueError" /\ toc' = toc)]_vars
    /\ [](IsSome(toc) =>
            \A i \in 1..Len(Chapters) : \A k \in 1..Len(Chapters[i].subchapters) :
               Chapters[i].subchapters[k] \in {SubTitle(j) : j \in 1..MaxSubs})

\* C23 witness: a reload of [.., {subchapters: ["S1", 7]}] raised and the two
\* chapters of before are still there.
C23_Witness ==
    /\ result.op = "update_from_json" /\ result.out = "ValueError"
    /\ HasNonString(input) /\ Len(input.items) = 2
    /\ Len(Chapters) = 2 /\ Len(Chapters[2].subchapters) = 2

\* C24: every chapter has a title that is not blank and a subchapter
\* sequence.  Of the chapters just built from an array: a title that is given
\* and not blank is kept; a missing or blank one becomes 'Untitled Chapter'
\* at construction, and at reload 'Chapter <number>' when the edited number is
\* above 0, 'Untitled Chapter' otherwise; a missing subchapters key gives the
\* empty sequence.
C24_TitlesAndSubchapters ==
    IsSome(toc) =>
        /\ \A i \in 1..Len(Chapters) :
              /\ Chapters[i].title \notin {"", " "}
              /\ Chapters[i].subchapters \in Seq({SubTitle(j) : j \in 1..MaxSubs})
        /\ (result.out = "ok" /\ input.kind = "array") =>
              \A i \in 1..Len(Chapters) :
                 LET item == input.items[i] IN
                 /\ "subchapters" \notin DOMAIN item => Chapters[i].subchapters = <<>>
                 /\ IF "title" \in DOMAIN item /\ item.title \notin {"", " "}
                    THEN Chapters[i].title = item.title
                    ELSE Chapters[i].title =
                           (IF Reloaded /\ "number" \in DOMAIN item /\ item.number > 0
                            THEN "Chapter " \o ToString(item.number)
                            ELSE "Untitled Chapter")

\* C24 witness: a reload of [{}, {title: "", subchapters: [], number: 1}].
C24_Witness ==
    /\ Reloaded /\ Len(Chapters) = 2 /\ input.items[1] = EmptyObj
    /\ Chapters[1].title = "Untitled Chapter" /\ Chapters[1].subchapters = <<>>
    /\ Chapters[2].title = "Chapter 1"

\* C25 as stated: in every state reachable by construction and reloads every
\* chapter's number is a positive integer.
C25_NumbersPositive ==
    IsSome(toc) => \A i \in 1..Len(Chapters) : Chapters[i].number > 0

\* C25: every chapter's number is positive as long as the chapters are those
\* the constructor built; right after a successful reload a chapter's number
\* is positive exactly when the edited object carries a positive number, and
\* is 0 when the object has none.
C25_PositiveUntilReload ==
    IsSome(toc) =>
        /\ srcOp = "parse" => \A i \in 1..Len(Chapters) : Chapters[i].number > 0
        /\ (Reloaded /\ input.kind = "array") =>
              \A i \in 1..Len(Chapters) :
                 /\ Chapters[i].number > 0 <=>
                       ("number" \in DOMAIN input.items[i] /\ input.items[i].number > 0)
                 /\ "number" \notin DOMAIN input.items[i] => Chapters[i].number = 0

\* C25 witness: after a reload, a first chapter numbered 0 and a second numbered 5.
C25_Witness ==
    /\ Reloaded /\ Len(Chapters) = 2
    /\ Chapters[1].number = 0 /\ Chapters[2].number = 5

----------------------------------------------------------------------------
\* A BookGenerator session: generate_toc, save_toc, load_toc, generate_book.

CurChapter == Chapters[chIdx]

RECURSIVE TotalItems(_)
TotalItems(chs) ==
    IF chs = <<>> THEN 0 ELSE Len(Head(chs).subchapters) + 1 + TotalItems(Tail(chs))

\* A generate_toc that reports the failure of its request on the callback.
GenerateTocSourceFails_Reported ==
    /\ pc = "idle" /\ ~tocCalled
    /\ \E title \in BookTitles :
         /\ book_title' = Some(title)
         /\ log' = log \o <<Request("request_toc", 0, 0, 0), Progress(-1, 1)>>
         /\ result' = Result("generate_toc", "BookGenerationError", "", None)
    /\ tocCalled' = TRUE
    /\ UNCHANGED <<retryVars, cleanVars, inputs, prompts>>
    /\ UNCHANGED <<toc, filepath, doc, jsonFile, input, srcOp, edited, ran, loads, runVars>>

\* generate_toc whose content request raises after its retries.
GenerateTocSourceFails ==
    /\ pc = "idle" /\ ~tocCalled
    /\ \E title \in BookTitles :
         /\ book_title' = Some(title)
         /\ log' = Append(log, Request("request_toc", 0, 0, 0))
         /\ result' = Result("generate_toc", "BookGenerationError", "", None)
    /\ tocCalled' = TRUE
    /\ UNCHANGED <<retryVars, cleanVars, inputs, prompts>>
    /\ UNCHANGED <<toc, filepath, doc, jsonFile, input, srcOp, edited, ran, loads, runVars>>

\* A generate_toc that derives the output path before it parses the answer.
GenerateToc_PathFirst ==
    /\ pc = "idle" /\ ~tocCalled
    /\ \E title \in BookTitles, content \in SessionDocs :
         LET r == NewToc(content) IN
         /\ book_title' = Some(title)
         /\ input' = content
         /\ filepath' = Some(GetFilepath(title))
         /\ IF r.out = "ok"
            THEN /\ toc' = Some(r.chapters)
                 /\ srcOp' = "parse"
                 /\ doc' = <<TocBlock(title, r.chapters)>>
                 /\ log' = log \o <<Request("request_toc", 0, 0, 0),
                                    Event("write_toc", 0, 0, 0, 0, 1)>>
                 /\ result' = Result("generate_toc", "ok", "", None)
            ELSE /\ log' = Append(log, Request("request_toc", 0, 0, 0))
                 /\ result' = Result("generate_toc", r.out, r.code, None)
                 /\ UNCHANGED <<toc, srcOp, doc>>
    /\ tocCalled' = TRUE
    /\ UNCHANGED <<retryVars, cleanVars, inputs, prompts>>
    /\ UNCHANGED <<jsonFile, edited, ran, loads, runVars>>

\* generate_toc whose content request returns the text of `content`.
GenerateToc ==
    /\ pc = "idle" /\ ~tocCalled
    /\ \E title \in BookTitles, content \in SessionDocs :
         LET r == NewToc(content) IN
         /\ book_title' = Some(title)
         /\ input' = content
         /\ IF r.out = "ok"
            THEN /\ toc' = Some(r.chapters)
                 /\ srcOp' = "parse"
                 /\ filepath' = Some(GetFilepath(title))
                 /\ doc' = <<TocBlock(title, r.chapters)>>
                 /\ log' = log \o <<Request("request_toc", 0, 0, 0),
                                    Event("write_toc", 0, 0, 0, 0, 1)>>
                 /\ result' = Result("generate_toc", "ok", "", None)
            ELSE /\ log' = Append(log, Request("request_toc", 0, 0, 0))
                 /\ result' = Result("generate_toc", r.out, r.code, None)
                 /\ UNCHANGED <<toc, srcOp, filepath, doc>>
    /\ tocCalled' = TRUE
    /\ UNCHANGED <<retryVars, cleanVars, inputs, prompts>>
    /\ UNCHANGED <<jsonFile, edited, ran, loads, runVars>>

\* A save_toc without its guard: it writes an empty array when there is no TOC.
SaveToc_Unguarded ==
    /\ pc = "idle"
    /\ result' = Result("save_toc", "ok", "", None)
    /\ jsonFile' = Some(ToJson(IF IsSome(toc) THEN Chapters ELSE <<>>))
    /\ UNCHANGED <<retryVars, cleanVars, inputs, prompts>>
    /\ UNCHANGED <<book_title, toc, filepath, doc, input, srcOp, log, tocCalled, edited,
                   ran, loads, runVars>>

\* save_toc
SaveToc ==
    /\ pc = "idle"
    /\ result' = Result("save_toc", "ok", "", None)
    /\ IF IsSome(toc) /\ IsSome(filepath)
       THEN jsonFile' = Some(ToJson(Chapters))
       ELSE UNCHANGED jsonFile
    /\ UNCHANGED <<retryVars, cleanVars, inputs, prompts>>
    /\ UNCHANGED <<book_title, toc, filepath, doc, input, srcOp, log, tocCalled, edited,
                   ran, loads, runVars>>

\* What the .json file holds when load_toc reads it: what was saved, or,
\* before chapter generation, what the user put there instead.
FileContents ==
    {Val(jsonFile)} \cup (IF ~edited /\ ~ran THEN SessionDocs ELSE {})

\* A load_toc that keeps the chapters it had and adds the loaded ones.
LoadToc_Merges ==
    /\ pc = "idle"
    /\ IF IsSome(filepath) /\ IsSome(jsonFile)
       THEN /\ loads < MaxLoads
            /\ loads' = loads + 1
            /\ \E toc_json \in FileContents :
                 LET r == UpdateFromJson(toc_json) IN
                 /\ jsonFile' = Some(toc_json)
                 /\ edited' = (edited \/ toc_json # Val(jsonFile))
                 /\ input' = toc_json
                 /\ result' = Result("load_toc", r.out, r.code, None)
                 /\ IF r.out = "ok"
                    THEN /\ toc' = Some(Chapters \o r.chapters)
                         /\ srcOp' = "reload"
                         /\ doc' = <<TocBlock(Val(book_title), Chapters \o r.chapters)>>
                         /\ log' = Append(log, Event("write_toc", 0, 0, 0, 0, 1))
                    ELSE UNCHANGED <<toc, srcOp, doc, log>>
       ELSE /\ result' = Result("load_toc", "ok", "", None)
            /\ UNCHANGED <<toc, srcOp, doc, log, jsonFile, edited, input, loads>>
    /\ UNCHANGED <<retryVars, cleanVars, inputs, prompts>>
    /\ UNCHANGED <<book_title, filepath, tocCalled, ran, runVars>>

\* load_toc
LoadToc ==
    /\ pc = "idle"
    /\ IF IsSome(filepath) /\ IsSome(jsonFile)
       THEN /\ loads < MaxLoads
            /\ loads' = loads + 1
            /\ \E toc_json \in FileContents :
                 LET r == UpdateFromJson(toc_json) IN
                 /\ jsonFile' = Some(toc_json)
                 /\ edited' = (edited \/ toc_json # Val(jsonFile))
                 /\ input' = toc_json
                 /\ result' = Result("load_toc", r.out, r.code, None)
                 /\ IF r.out = "ok"
                    THEN /\ toc' = Some(r.chapters)
                         /\ srcOp' = "reload"
                         /\ doc' = <<TocBlock(Val(book_title), r.chapters)>>
                         /\ log' = Append(log, Event("write_toc", 0, 0, 0, 0, 1))
                    ELSE UNCHANGED <<toc, srcOp, doc, log>>
       ELSE /\ result' = Result("load_toc", "ok", "", None)
            /\ UNCHANGED <<toc, srcOp, doc, log, jsonFile, edited, input, loads>>
    /\ UNCHANGED <<retryVars, cleanVars, inputs, prompts>>
    /\ UNCHANGED <<book_title, filepath, tocCalled, ran, runVars>>

\* A start of the run that skips the start event when there is nothing to do.
EnterRun_SilentWhenEmpty ==
    /\ total_items' = TotalItems(Chapters)
    /\ current_item' = 0
    /\ log' = IF Len(Chapters) = 0 THEN log ELSE Append(log, Progress(0, 1))
    /\ ran' = TRUE
    /\ chIdx' = 1
    /\ subIdx' = 0
    /\ pc' = IF Len(Chapters) = 0 THEN "finish" ELSE "chapter"
    /\ result' = Result("generate_book", "running", "", None)

\* The start of the run: totals, the start event, the first chapter.
EnterRun ==
    /\ total_items' = TotalItems(Chapters)
    /\ current_item' = 0
    /\ log' = Append(log, Progress(0, 1))
    /\ ran' = TRUE
    /\ chIdx' = 1
    /\ subIdx' = 0
    /\ pc' = IF Len(Chapters) = 0 THEN "finish" ELSE "chapter"
    /\ result' = Result("generate_book", "running", "", None)

\* A generate_book whose precondition looks at the TOC alone.
GenerateBookEnter_TocOnly ==
    /\ pc = "idle" /\ ~ran
    /\ IF IsNone(toc)
       THEN /\ result' = Result("generate_book", "BookGenerationError", "", None)
            /\ UNCHANGED <<log, ran, runVars>>
       ELSE EnterRun
    /\ UNCHANGED <<retryVars, cleanVars, inputs, prompts>>
    /\ UNCHANGED <<book_title, toc, filepath, doc, jsonFile, input, srcOp, tocCalled, edited, loads>>

\* generate_book, up to the start event.
GenerateBookEnter ==
    /\ pc = "idle" /\ ~ran
    /\ IF IsNone(toc) \/ IsNone(filepath) \/ IsNone(book_title) \/ book_title = Some("")
       THEN /\ result' = Result("generate_book", "BookGenerationError", "", None)
            /\ UNCHANGED <<log, ran, runVars>>
       ELSE EnterRun
    /\ UNCHANGED <<retryVars, cleanVars, inputs, prompts>>
    /\ UNCHANGED <<book_title, toc, filepath, doc, jsonFile, input, srcOp, tocCalled, edited, loads>>

\* An except clause that reports the failure and still returns the path.
Abort_ReturnsPath(events) ==
    /\ log' = log \o events \o <<Progress(-1, 1)>>
    /\ result' = Result("generate_book", "ok", "", filepath)
    /\ pc' = "idle"
    /\ UNCHANGED <<retryVars, cleanVars, inputs>>
    /\ UNCHANGED <<book_title, toc, filepath, doc, jsonFile, input, srcOp, tocCalled, edited,
                   ran, loads, chIdx, subIdx, current_item, total_items>>

\* An except clause that rolls the document back to the contents block.
Abort_RollsBack(events) ==
    /\ log' = log \o events \o <<Progress(-1, 1)>>
    /\ result' = Result("generate_book", "ok", "", None)
    /\ pc' = "idle"
    /\ doc' = SubSeq(doc, 1, 1)
    /\ UNCHANGED <<retryVars, cleanVars, inputs>>
    /\ UNCHANGED <<book_title, toc, filepath, jsonFile, input, srcOp, tocCalled, edited,
                   ran, loads, chIdx, subIdx, current_item, total_items>>

\* The except clause of generate_book.
Abort(events) ==
    /\ log' = log \o events \o <<Progress(-1, 1)>>
    /\ result' = Result("generate_book", "ok", "", None)
    /\ pc' = "idle"
    /\ UNCHANGED <<retryVars, cleanVars, inputs>>
    /\ UNCHANGED <<book_title, toc, filepath, doc, jsonFile, input, srcOp, tocCalled, edited,
                   ran, loads, chIdx, subIdx, current_item, total_items>>

ChapterEvents ==
    <<Progress(current_item, total_items), Request("request_intro", chIdx, CurChapter.number, 0)>>

\* A chapter write that opens the file for writing, not for appending.
ChapterIntro_Overwrites ==
    /\ pc = "chapter"
    /\ log' = log \o ChapterEvents \o <<Event("write_chapter", chIdx, CurChapter.number, 0, 0, 1)>>
    /\ doc' = <<ChapterBlock(CurChapter)>>
    /\ IF Len(CurChapter.subchapters) > 0
       THEN pc' = "sub" /\ subIdx' = 1
       ELSE pc' = "chapter_end" /\ subIdx' = 0
    /\ prompts' = Append(prompts, IntroPrompt(CurChapter, Val(book_title)))
    /\ UNCHANGED <<retryVars, cleanVars, inputs>>
    /\ UNCHANGED <<book_title, toc, filepath, jsonFile, input, srcOp, result, tocCalled, edited,
                   ran, loads, chIdx, current_item, total_items>>

\* The loop body of generate_book up to the chapter's introduction.
ChapterIntro ==
    /\ pc = "chapter"
    /\ log' = log \o ChapterEvents \o <<Event("write_chapter", chIdx, CurChapter.number, 0, 0, 1)>>
    /\ doc' = Append(doc, ChapterBlock(CurChapter))
    /\ IF Len(CurChapter.subchapters) > 0
       THEN pc' = "sub" /\ subIdx' = 1
       ELSE pc' = "chapter_end" /\ subIdx' = 0
    /\ prompts' = Append(prompts, IntroPrompt(CurChapter, Val(book_title)))
    /\ UNCHANGED <<retryVars, cleanVars, inputs>>
    /\ UNCHANGED <<book_title, toc, filepath, jsonFile, input, srcOp, result, tocCalled, edited,
                   ran, loads, chIdx, current_item, total_items>>

ChapterIntroFails ==
    /\ pc = "chapter"
    /\ prompts' = Append(prompts, IntroPrompt(CurChapter, Val(book_title)))
    /\ Abort(ChapterEvents)

\* A subchapter progress event that counts the subchapter about to be written.
SubEvents_CountsAhead ==
    <<Progress(IF total_items > 0 THEN current_item + subIdx + 1 ELSE 0,
               IF total_items > 0 THEN total_items ELSE 1),
      Request("request_sub", chIdx, CurChapter.number, subIdx)>>

SubEvents ==
    <<Progress(IF total_items > 0 THEN current_item + subIdx ELSE 0,
               IF total_items > 0 THEN total_items ELSE 1),
      Request("request_sub", chIdx, CurChapter.number, subIdx)>>

\* A subchapter loop that stops one subchapter early.
Subchapter_SkipsLast ==
    /\ pc = "sub"
    /\ log' = log \o SubEvents \o <<Event("write_subchapter", chIdx, CurChapter.number, subIdx, 0, 1)>>
    /\ doc' = Append(doc, SubBlock(CurChapter, subIdx))
    /\ IF subIdx + 1 < Len(CurChapter.subchapters)
       THEN pc' = "sub" /\ subIdx' = subIdx + 1
       ELSE pc' = "chapter_end" /\ subIdx' = 0
    /\ prompts' = Append(prompts, SubPrompt(CurChapter, subIdx, Val(book_title)))
    /\ UNCHANGED <<retryVars, cleanVars, inputs>>
    /\ UNCHANGED <<book_title, toc, filepath, jsonFile, input, srcOp, result, tocCalled, edited,
                   ran, loads, chIdx, current_item, total_items>>

\* One pass of the subchapter loop of _generate_chapter.
Subchapter ==
    /\ pc = "sub"
    /\ log' = log \o SubEvents \o <<Event("write_subchapter", chIdx, CurChapter.number, subIdx, 0, 1)>>
    /\ doc' = Append(doc, SubBlock(CurChapter, subIdx))
    /\ IF subIdx < Len(CurChapter.subchapters)
       THEN pc' = "sub" /\ subIdx' = subIdx + 1
       ELSE pc' = "chapter_end" /\ subIdx' = 0
    /\ prompts' = Append(prompts, SubPrompt(CurChapter, subIdx, Val(book_title)))
    /\ UNCHANGED <<retryVars, cleanVars, inputs>>
    /\ UNCHANGED <<book_title, toc, filepath, jsonFile, input, srcOp, result, tocCalled, edited,
                   ran, loads, chIdx, current_item, total_items>>

\* A subchapter failure that is swallowed: the loop goes on with the next unit.
SubchapterFails_SkipsUnit ==
    /\ pc = "sub"
    /\ log' = log \o SubEvents
    /\ IF subIdx < Len(CurChapter.subchapters)
       THEN pc' = "sub" /\ subIdx' = subIdx + 1
       ELSE pc' = "chapter_end" /\ subIdx' = 0
    /\ prompts' = Append(prompts, SubPrompt(CurChapter, subIdx, Val(book_title)))
    /\ UNCHANGED <<retryVars, cleanVars, inputs>>
    /\ UNCHANGED <<book_title, toc, filepath, doc, jsonFile, input, srcOp, result, tocCalled,
                   edited, ran, loads, chIdx, current_item, total_items>>

\* The request for a subchapter raises.
SubchapterFails ==
    /\ pc = "sub"
    /\ prompts' = Append(prompts, SubPrompt(CurChapter, subIdx, Val(book_title)))
    /\ Abort(SubEvents)

\* A loop end that counts the subchapters only, not the introduction.
ChapterEnd_NoIntroUnit ==
    /\ pc = "chapter_end"
    /\ current_item' = current_item + Len(CurChapter.subchapters)
    /\ log' = Append(log, Progress(current_item', total_items))
    /\ IF chIdx < Len(Chapters)
       THEN pc' = "chapter" /\ chIdx' = chIdx + 1
       ELSE pc' = "finish" /\ chIdx' = chIdx
    /\ UNCHANGED <<retryVars, cleanVars, inputs, prompts>>
    /\ UNCHANGED <<book_title, toc, filepath, doc, jsonFile, input, srcOp, result, tocCalled,
                   edited, ran, loads, subIdx, total_items>>

\* The end of the loop body of generate_book.
ChapterEnd ==
    /\ pc = "chapter_end"
    /\ current_item' = current_item + Len(CurChapter.subchapters) + 1
    /\ log' = Append(log, Progress(current_item', total_items))
    /\ IF chIdx < Len(Chapters)
       THEN pc' = "chapter" /\ chIdx' = chIdx + 1
       ELSE pc' = "finish" /\ chIdx' = chIdx
    /\ UNCHANGED <<retryVars, cleanVars, inputs, prompts>>
    /\ UNCHANGED <<book_title, toc, filepath, doc, jsonFile, input, srcOp, result, tocCalled,
                   edited, ran, loads, subIdx, total_items>>

\* An end of generate_book that hands the locator over and forgets it.
Finish_ForgetsPath ==
    /\ pc = "finish"
    /\ log' = Append(log, Progress(1, 1))
    /\ result' = Result("generate_book", "ok", "", filepath)
    /\ filepath' = None
    /\ pc' = "idle"
    /\ UNCHANGED <<retryVars, cleanVars, inputs, prompts>>
    /\ UNCHANGED <<book_title, toc, doc, jsonFile, input, srcOp, tocCalled, edited,
                   ran, loads, chIdx, subIdx, current_item, total_items>>

\* An end of generate_book that reports success and returns nothing.
Finish_ReturnsNone ==
    /\ pc = "finish"
    /\ log' = Append(log, Progress(1, 1))
    /\ result' = Result("generate_book", "ok", "", None)
    /\ pc' = "idle"
    /\ UNCHANGED <<retryVars, cleanVars, inputs, prompts>>
    /\ UNCHANGED <<book_title, toc, filepath, doc, jsonFile, input, srcOp, tocCalled, edited,
                   ran, loads, chIdx, subIdx, current_item, total_items>>

\* After the loop of generate_book.
Finish ==
    /\ pc = "finish"
    /\ log' = Append(log, Progress(1, 1))
    /\ result' = Result("generate_book", "ok", "", filepath)
    /\ pc' = "idle"
    /\ UNCHANGED <<retryVars, cleanVars, inputs, prompts>>
    /\ UNCHANGED <<book_title, toc, filepath, doc, jsonFile, input, srcOp, tocCalled, edited,
                   ran, loads, chIdx, subIdx, current_item, total_items>>

Next ==
    \/ GenerateTocSourceFails
    \/ GenerateToc
    \/ SaveToc
    \/ LoadToc
    \/ GenerateBookEnter
    \/ ChapterIntro
    \/ ChapterIntroFails
    \/ Subchapter
    \/ SubchapterFails
    \/ ChapterEnd
    \/ Finish

Spec == Init /\ [][Next]_vars

----------------------------------------------------------------------------
\* The BookGenerator object used freely: generate_toc may be called again.

TocRequests == SelectSeq(log, LAMBDA e : e.ev = "request_toc")

\* generate_toc on a BookGenerator that generate_toc was called on before:
\* book_title is assigned first, then the request, the constructor,
\* get_filepath and write_toc, each reached only if nothing raised before it.
GenerateTocAgain ==
    /\ pc = "idle" /\ tocCalled /\ ~ran
    /\ Len(TocRequests) < MaxTocCalls
    /\ \E title \in BookTitles :
         /\ book_title' = Some(title)
         /\ \/ /\ log' = Append(log, Request("request_toc", 0, 0, 0))
               /\ result' = Result("generate_toc", "BookGenerationError", "", None)
               /\ UNCHANGED <<toc, srcOp, filepath, doc, input>>
            \/ \E content \in SessionDocs :
                 LET r == NewToc(content) IN
                 /\ input' = content
                 /\ IF r.out = "ok"
                    THEN /\ toc' = Some(r.chapters)
                         /\ srcOp' = "parse"
                         /\ filepath' = Some(GetFilepath(title))
                         /\ doc' = <<TocBlock(title, r.chapters)>>
                         /\ log' = log \o <<Request("request_toc", 0, 0, 0),
                                            Event("write_toc", 0, 0, 0, 0, 1)>>
                         /\ result' = Result("generate_toc", "ok", "", None)
                    ELSE /\ log' = Append(log, Request("request_toc", 0, 0, 0))
                         /\ result' = Result("generate_toc", r.out, r.code, None)
                         /\ UNCHANGED <<toc, srcOp, filepath, doc>>
    /\ UNCHANGED <<retryVars, cleanVars, inputs, prompts>>
    /\ UNCHANGED <<jsonFile, tocCalled, edited, ran, loads, runVars>>

NextApi == Next \/ GenerateTocAgain

SpecApi == Init /\ [][NextApi]_vars

----------------------------------------------------------------------------
\* One call of generate_content, attempt by attempt.

\* The exceptions the attempts so far ended with.
Errors(rs) == [i \in 1..Len(rs) |-> Body(rs[i])]

\* generate_content(prompt) is called: the decorator starts the first attempt.
GenerateContentCall ==
    /\ gcPc = "idle"
    /\ gcPc' = "attempt"
    /\ attempt_number' = 1
    /\ calls' = calls + 1
    /\ UNCHANGED <<responses, outcome, attempts, bookVars, cleanVars>>

\* An attempt whose body returns: generate_content returns that text.
AttemptReturns ==
    /\ gcPc = "attempt"
    /\ \E r \in Upstream :
         /\ Body(r).out = "text"
         /\ responses' = Append(responses, r)
         /\ outcome' = Some(Body(r))
    /\ gcPc' = "done"
    /\ attempts' = attempts + 1
    /\ UNCHANGED <<attempt_number, calls, bookVars, cleanVars>>

\* An attempt whose body raises: the decorator stops and raises, or waits
\* and starts the next attempt.
AttemptRaises ==
    /\ gcPc = "attempt"
    /\ \E r \in Upstream :
         /\ Body(r).out # "text"
         /\ responses' = Append(responses, r)
         /\ IF Stop(attempt_number)
            THEN /\ outcome' = Some(Reraise(Errors(responses')))
                 /\ gcPc' = "done"
                 /\ UNCHANGED attempt_number
            ELSE /\ attempt_number' = attempt_number + 1
                 /\ UNCHANGED <<gcPc, outcome>>
    /\ attempts' = attempts + 1
    /\ UNCHANGED <<calls, bookVars, cleanVars>>

NextRetry == GenerateContentCall \/ AttemptReturns \/ AttemptRaises

SpecRetry == Init /\ [][NextRetry]_vars

----------------------------------------------------------------------------
\* generate_book with the attempts of its requests: every unit request is a
\* generate_content call of its own, and _generate_chapter goes on when the
\* call has returned or raised.

\* A generate_content call has ended and _generate_chapter has not yet seen it.
Pending == gcPc = "done" /\ Len(prompts) < calls

\* _generate_chapter calls generate_content for the unit it is at: the
\* decorator starts the first attempt of a fresh call.
UnitRequest ==
    /\ pc \in {"chapter", "sub"}
    /\ gcPc \in {"idle", "done"} /\ Len(prompts) = calls
    /\ gcPc' = "attempt"
    /\ attempt_number' = 1
    /\ responses' = <<>>
    /\ outcome' = None
    /\ calls' = calls + 1
    /\ UNCHANGED <<attempts, bookVars, cleanVars>>

IntroReturned == Pending /\ Val(outcome).out = "text" /\ ChapterIntro
IntroRaised == Pending /\ Val(outcome).out = "BookGenerationError" /\ ChapterIntroFails
SubReturned == Pending /\ Val(outcome).out = "text" /\ Subchapter
SubRaised == Pending /\ Val(outcome).out = "BookGenerationError" /\ SubchapterFails

\* The steps of generate_book once it has passed its precondition.
RunStep ==
    \/ UnitRequest
    \/ AttemptReturns
    \/ AttemptRaises
    \/ IntroReturned
    \/ IntroRaised
    \/ SubReturned
    \/ SubRaised
    \/ ChapterEnd
    \/ Finish

\* The answers of the content source to the contents request in these runs.
LiveDocs ==
    {JArray(s) : s \in UNION {[1..n -> {[title |-> "A", subchapters |-> SubList(m)] :
                                          m \in 0..MaxLiveSubs}] : n \in 0..MaxLiveChapters}}

LiveGenerateToc == GenerateToc /\ input' \in LiveDocs

NextLive ==
    \/ LiveGenerateToc
    \/ GenerateBookEnter
    \/ RunStep

\* generate_book runs to its end without waiting for anything but the content
\* source, and each upstream call returns or raises.
SpecLive == Init /\ [][NextLive]_vars /\ WF_vars(RunStep)

----------------------------------------------------------------------------
\* _clean_response applied to a text, and to its own result.

\* _clean_response(content), content being a payload in one of its wrappings.
CleanCall ==
    /\ passes = 0
    /\ \E p \in Texts, w \in Wrappers :
         /\ payload' = p
         /\ wrapper' = w
         /\ raw_content' = Wrap(w, p)
         /\ cleaned' = CleanResponse(Wrap(w, p))
    /\ passes' = 1
    /\ UNCHANGED <<bookVars, retryVars>>

\* _clean_response applied to what it returned.
CleanAgain ==
    /\ passes \in 1..(MaxPasses - 1)
    /\ payload' = cleaned
    /\ wrapper' = NoWrapper
    /\ raw_content' = cleaned
    /\ cleaned' = CleanResponse(cleaned)
    /\ passes' = passes + 1
    /\ UNCHANGED <<bookVars, retryVars>>

NextClean == CleanCall \/ CleanAgain

SpecClean == Init /\ [][NextClean]_vars

----------------------------------------------------------------------------
\* main.py: one command-line session.  Any exception that reaches main's
\* handlers ends the process (sys.exit), so nothing follows a failed
\* generate_toc or a generate_book that raised.

\* book_generator.generate_toc(book_title, toc_prompt)
MainGenerateToc ==
    /\ result.op = "init"
    /\ (GenerateToc \/ GenerateTocSourceFails)

\* book_generator.save_toc(), always, right after generate_toc returned.
MainSaveToc ==
    /\ result.op = "generate_toc" /\ result.out = "ok"
    /\ SaveToc

\* main() sits in the input() of the interactive edit block.
EditPending == result.op = "save_toc" /\ inputs = <<"edit">>

\* Everything but the input() waits.
mainVars ==
    <<book_title, toc, filepath, doc, jsonFile, input, srcOp, log, result, tocCalled, edited,
      ran, loads, prompts, runVars, retryVars, cleanVars>>

\* An edit block that asks for Enter again after the reload.
MainEditPause_Again ==
    /\ result.op \in {"save_toc", "load_toc"} /\ ~EditPending
    /\ Len(inputs) < 2
    /\ inputs' = Append(inputs, "edit")
    /\ UNCHANGED mainVars

\* --interactive-toc: main() reaches input("Press Enter to continue after
\* saving your changes...") and waits.
MainEditPause ==
    /\ result.op = "save_toc" /\ inputs = <<>>
    /\ inputs' = <<"edit">>
    /\ UNCHANGED mainVars

\* A main that also reloads the edited form after generate_book has returned.
MainEditReload_AfterRun ==
    /\ (EditPending \/ (ran /\ result.op = "generate_book" /\ pc = "idle"))
    /\ LoadToc

\* Enter arrives (the user may have edited the .json file meanwhile), then
\* load_toc inside try/except Exception.
MainEditReload ==
    /\ EditPending
    /\ LoadToc

\* --browse-after-toc with the book file readable: main() prints it and waits
\* in input("Press Enter to continue with book generation...").
MainBrowsePause ==
    /\ result.op \in {"save_toc", "load_toc"} /\ ~EditPending
    /\ inputs \in {<<>>, <<"edit">>}
    /\ inputs' = Append(inputs, "browse")
    /\ UNCHANGED mainVars

\* A main that gives up when the reload raised.
MainGenerateBook_StopsOnReloadError ==
    /\ result.op \in {"save_toc", "load_toc"} /\ ~EditPending
    /\ result.out = "ok"
    /\ GenerateBookEnter

\* A main that calls generate_book whatever generate_toc did.
MainGenerateBook_Regardless ==
    /\ result.op \in {"generate_toc", "save_toc", "load_toc"} /\ ~EditPending
    /\ GenerateBookEnter

\* book_generator.generate_book(), after save_toc or after the pauses
\* (whether or not the reload raised).
MainGenerateBook ==
    /\ result.op \in {"save_toc", "load_toc"} /\ ~EditPending
    /\ GenerateBookEnter

NextMain ==
    \/ MainGenerateToc
    \/ MainSaveToc
    \/ MainEditPause
    \/ MainEditReload
    \/ MainBrowsePause
    \/ MainGenerateBook
    \/ ChapterIntro
    \/ ChapterIntroFails
    \/ Subchapter
    \/ SubchapterFails
    \/ ChapterEnd
    \/ Finish

SpecMain == Init /\ [][NextMain]_vars

----------------------------------------------------------------------------
\* Properties of the session (checked under Spec).

IsRequest(e) == e.ev \in {"request_intro", "request_sub"}
IsUnitWrite(e) == e.ev \in {"write_chapter", "write_subchapter"}
Requests == SelectSeq(log, IsRequest)
UnitWrites == SelectSeq(log, IsUnitWrite)
UnitEvents == SelectSeq(log, LAMBDA e : IsRequest(e) \/ IsUnitWrite(e))

\* The units of a chapter sequence in generation order: chapter position and
\* subchapter index, 0 for the introduction.
RECURSIVE UnitsFrom(_, _)
UnitsFrom(chs, pos) ==
    IF chs = <<>> THEN <<>>
    ELSE [k \in 1..(Len(Head(chs).subchapters) + 1) |-> [pos |-> pos, k |-> k - 1]]
         \o UnitsFrom(Tail(chs), pos + 1)
AllUnits == UnitsFrom(Chapters, 1)

\* generate_book is running, or was the last call made.
InRun == ran /\ result.op = "generate_book"
RunEnded == InRun /\ pc = "idle"
\* Every request of the run was answered: none raised.
AllAnswered == Len(Requests) = Len(UnitWrites)

PreOK == IsSome(toc) /\ IsSome(filepath) /\ IsSome(book_title) /\ book_title # Some("")

\* C6: if generate_toc fails (the content source raises, or its answer does
\* not parse) the session has no TableOfContents, no output locator, and
\* write_toc was never called.
C6_FailedTocLeavesNothing ==
    (result.op = "generate_toc" /\ result.out # "ok") =>
        /\ IsNone(toc)
        /\ IsNone(filepath)
        /\ doc = <<>>
        /\ \A i \in 1..Len(log) : log[i].ev # "write_toc"

\* C6 witness: the answer for 'My Book' did not parse.
C6_Witness ==
    /\ result.op = "generate_toc" /\ result.code = "TOC_PARSE_ERROR"
    /\ book_title = Some("My Book") /\ Len(log) = 1

\* C7: generate_book called without a TableOfContents (or locator, or title)
\* raises the precondition error, and that call makes no content request and
\* no write.
C7_PreconditionError ==
    [][(result'.op = "generate_book" /\ ~PreOK) =>
          /\ result'.out = "BookGenerationError"
          /\ log' = log /\ doc' = doc
          /\ pc' = "idle" /\ ~ran']_vars

\* C7 witness: generate_book raised although generate_toc was never called.
C7_Witness ==
    /\ result.op = "generate_book" /\ result.out = "BookGenerationError"
    /\ IsNone(toc) /\ ~tocCalled

\* C8: the requests of a run are the units of the TOC in order (chapter by
\* chapter, introduction first, then the subchapters in order), each unit is
\* written before the next is requested, and a run that returns the path has
\* requested and written every unit exactly once.
C8_SequentialOrder ==
    InRun =>
        /\ Len(Requests) <= Len(AllUnits)
        /\ \A j \in 1..Len(Requests) :
             /\ Requests[j].pos = AllUnits[j].pos /\ Requests[j].k = AllUnits[j].k
             /\ Requests[j].ev = (IF AllUnits[j].k = 0 THEN "request_intro" ELSE "request_sub")
        /\ \A j \in 1..Len(UnitWrites) :
             /\ UnitWrites[j].pos = AllUnits[j].pos /\ UnitWrites[j].k = AllUnits[j].k
             /\ UnitWrites[j].ev = (IF AllUnits[j].k = 0 THEN "write_chapter" ELSE "write_subchapter")
        /\ \A j \in 1..Len(UnitEvents) : IsRequest(UnitEvents[j]) <=> (j % 2 = 1)
        /\ (RunEnded /\ IsSome(result.ret)) =>
              (Len(Requests) = Len(AllUnits) /\ Len(UnitWrites) = Len(AllUnits))

\* C8 witness: a complete run over two chapters, the first with two subchapters.
C8_Witness ==
    /\ RunEnded /\ IsSome(result.ret)
    /\ Len(Chapters) = 2 /\ Len(Chapters[1].subchapters) = 2
    /\ Len(Requests) = Len(AllUnits)

WritesUpTo(i) == Cardinality({j \in 1..i : IsUnitWrite(log[j])})

\* The fractions reported right after each unit, as <<numerator, denominator>>.
AfterUnitFractions ==
    LET idx == SelectSeq([i \in 1..Len(log) |-> i],
                         LAMBDA i : i > 1 /\ IsUnitWrite(log[i - 1])) IN
    [j \in 1..Len(idx) |-> <<log[idx[j]].num, log[idx[j]].den>>]

\* C9: in generate_book every completed unit is followed by a progress event
\* whose fraction is completed_units / total_units, total_units being the sum
\* over the chapters of 1 + subchapter count; for two chapters with 1 and 2
\* subchapters the fractions are 1/5, 2/5, 3/5, 4/5, 5/5 in that order.
C9_ProgressPerUnit ==
    InRun =>
        /\ \A i \in 1..(Len(log) - 1) :
             IsUnitWrite(log[i]) =>
                /\ log[i + 1].ev = "progress"
                /\ log[i + 1].num = WritesUpTo(i)
                /\ log[i + 1].den = Len(AllUnits)
        /\ RunEnded => ~IsUnitWrite(log[Len(log)])
        /\ (RunEnded /\ AllAnswered /\ Len(Chapters) = 2
               /\ Len(Chapters[1].subchapters) = 1 /\ Len(Chapters[2].subchapters) = 2) =>
              AfterUnitFractions = <<<<1, 5>>, <<2, 5>>, <<3, 5>>, <<4, 5>>, <<5, 5>>>>

\* C9 witness: the complete run over chapters with 1 and 2 subchapters.
C9_Witness ==
    /\ RunEnded /\ AllAnswered /\ Len(Chapters) = 2
    /\ Len(Chapters[1].subchapters) = 1 /\ Len(Chapters[2].subchapters) = 2
    /\ Len(AfterUnitFractions) = 5

\* C10: when every content request of the run succeeds, generate_book returns
\* the session's output path, the last progress event is exactly 1.0, and no
\* event with a negative fraction was emitted.
C10_SuccessTerminal ==
    (RunEnded /\ AllAnswered) =>
        /\ IsSome(filepath) /\ result.ret = filepath
        /\ log[Len(log)] = Progress(1, 1)
        /\ \A i \in 1..Len(log) : log[i].num >= 0

\* C10 witness: a run of three units that returned the path.
C10_Witness ==
    /\ RunEnded /\ AllAnswered /\ Len(UnitWrites) = 3
    /\ result.ret = Some("my_book.md")

\* A request of the run raised: the run is over and one request has no write.
RunFailed == RunEnded /\ ~AllAnswered

NegativeEvents == SelectSeq(log, LAMBDA e : e.ev = "progress" /\ e.num < 0)

\* C11: if an introduction or subchapter request raises, generate_book emits
\* exactly one progress event with a negative fraction, that event is the last
\* event of the run, and the call returns None instead of the output path.
C11_FailureTerminal ==
    RunFailed =>
        /\ Len(NegativeEvents) = 1
        /\ log[Len(log)].ev = "progress" /\ log[Len(log)].num < 0
        /\ result.out = "ok" /\ result.ret = None

\* C11 witness: the second subchapter request of a run raised.
C11_Witness ==
    /\ RunFailed /\ Len(UnitWrites) = 2
    /\ Requests[Len(Requests)].ev = "request_sub" /\ Requests[Len(Requests)].k = 2

\* The position in the log of the request that raised.
FailedAt == CHOOSE i \in 1..Len(log) : IsRequest(log[i]) /\ ~IsUnitWrite(log[i + 1])

\* C12: after a request raised at a unit of chapter i nothing more is
\* requested or written (nothing for chapters i+1..N): the failed request is
\* followed by the negative event alone, the document holds the blocks of the
\* units written before it, and no event of the run has fraction 1.0.
C12_NothingAfterFailure ==
    RunFailed =>
        /\ Len(Requests) = Len(UnitWrites) + 1
        /\ FailedAt = Len(log) - 1
        /\ \A j \in 1..Len(Requests) : Requests[j].pos <= log[FailedAt].pos
        /\ Len(doc) = 1 + Len(UnitWrites)
        /\ \A i \in 1..Len(log) : log[i].ev = "progress" => log[i].num # log[i].den

\* C12 witness: the introduction of the first of two chapters raised.
C12_Witness ==
    /\ RunFailed /\ Len(Chapters) = 2
    /\ Len(Requests) = 1 /\ Len(UnitWrites) = 0

ProgressEvents == SelectSeq(log, LAMBDA e : e.ev = "progress")

\* The last call raised to its caller.
Raised == result.op \in {"generate_toc", "generate_book"} /\ result.out \notin {"ok", "running"}

\* C16 as stated: whenever generate_toc or generate_book has failed, the
\* failure is the last event the progress callback received.
C16_EveryFailureOnCallback ==
    (Raised \/ RunFailed) =>
        /\ log # <<>>
        /\ log[Len(log)].ev = "progress" /\ log[Len(log)].num < 0

\* C16: a failed introduction or subchapter request is reported on the
\* progress callback, as the negative event that ends the run; a failure of
\* generate_toc (content source or parse) and the precondition failure of
\* generate_book are raised to the caller, and the call that raises sends
\* nothing to the progress callback.
C16_OnlyRunFailuresOnCallback ==
    /\ [](RunFailed => log[Len(log)] = Progress(-1, 1))
    /\ [](Raised => ~RunFailed)
    /\ [][Raised' => ProgressEvents' = ProgressEvents]_vars

\* C16 witness: the content source failed on the TOC request for 'My Book';
\* the callback has received nothing.
C16_Witness ==
    /\ Raised /\ result.op = "generate_toc" /\ result.code = ""
    /\ result.out = "BookGenerationError"
    /\ book_title = Some("My Book") /\ ProgressEvents = <<>>

----------------------------------------------------------------------------
\* Properties of the command-line session (checked under SpecMain).

WriteTocs == SelectSeq(log, LAMBDA e : e.ev = "write_toc")

\* The requests so far are those of the first units of chs, in order.
RequestsFollow(chs) ==
    /\ Len(Requests) <= Len(UnitsFrom(chs, 1))
    /\ \A j \in 1..Len(Requests) :
         /\ Requests[j].pos = UnitsFrom(chs, 1)[j].pos
         /\ Requests[j].k = UnitsFrom(chs, 1)[j].k
         /\ Requests[j].n = chs[Requests[j].pos].number

\* The reload of the edit pause raised.
ReloadFailed == result.op = "load_toc" /\ result.out # "ok"
\* generate_book was called after a reload that raised.
AfterFailedReload == result.op = "generate_book" /\ loads = 1 /\ srcOp = "parse"

\* C13: a reload that raises during the edit pause does not end the session:
\* main goes on to generate_book, the failed reload leaves the chapters as they
\* were and re-emits no contents block, and the run requests the units of
\* those pre-edit chapters.
C13_ReloadFailureContinues ==
    /\ [](ReloadFailed => ENABLED MainGenerateBook)
    /\ [][ReloadFailed' => (toc' = toc /\ doc' = doc /\ log' = log)]_vars
    /\ [][ReloadFailed =>
             /\ toc' = toc
             /\ result' # result => (result'.op = "generate_book" /\ (PreOK => InRun'))]_vars
    /\ [](AfterFailedReload =>
            /\ Len(WriteTocs) = 1
            /\ doc[1] = TocBlock(Val(book_title), Chapters)
            /\ InRun => RequestsFollow(Chapters))

\* C13 witness: a complete run of three units after the edited file was not JSON.
C13_Witness ==
    /\ AfterFailedReload /\ input = JOther("syntax")
    /\ RunEnded /\ AllAnswered /\ Len(UnitWrites) = 3

\* Chapter i of the TableOfContents is what item i of the array describes.
ChapterIsItem(ch, item) ==
    /\ ch.number = Get(item, "number", 0)
    /\ ch.title = DefaultTitle(Get(item, "title", ""), Get(item, "number", 0))
    /\ Len(ch.subchapters) = Len(Get(item, "subchapters", <<>>))
    /\ \A k \in 1..Len(ch.subchapters) : ch.subchapters[k] = Get(item, "subchapters", <<>>)[k].v

\* C14: after load_toc read a valid edited form the chapters are exactly the
\* items of the edited array (none of the previous chapters kept or merged),
\* the contents block was written again and is the rendering of the reloaded
\* chapters, and the run requests the units of the reloaded chapters.
C14_ReloadReplaces ==
    srcOp = "reload" =>
        /\ Len(Chapters) = Len(input.items)
        /\ \A i \in 1..Len(Chapters) : ChapterIsItem(Chapters[i], input.items[i])
        /\ Len(WriteTocs) = 2
        /\ doc[1] = [blk |-> "toc", title |-> Val(book_title), lines |-> ToMarkdown(Chapters)]
        /\ ~ran => (Len(doc) = 1 /\ log[Len(log)].ev = "write_toc")
        /\ InRun => RequestsFollow(Chapters)

\* C14 witness: a complete run of three units over two chapters that the user
\* put in place of the generated ones.
C14_Witness ==
    /\ srcOp = "reload" /\ edited
    /\ RunEnded /\ AllAnswered
    /\ Len(Chapters) = 2 /\ Len(UnitWrites) = 3

\* generate_toc raised: the content source failed or its answer did not parse.
TocFailed == tocCalled /\ IsNone(toc)

\* C15: when the TOC text does not parse (or generate_toc raises for any
\* other reason) the session is over: generate_toc is the last call main
\* makes, no introduction or subchapter is ever requested, and generate_book
\* is never entered.
C15_ParseFailureEndsSession ==
    TocFailed =>
        /\ result.op = "generate_toc" /\ result.out # "ok"
        /\ Requests = <<>> /\ UnitWrites = <<>>
        /\ ~ran /\ pc = "idle"
        /\ ~ENABLED NextMain

\* C15 witness: the answer to the TOC request was not JSON, and main has
\* stopped after its one request.
C15_Witness ==
    /\ TocFailed /\ result.code = "TOC_PARSE_ERROR"
    /\ input = JOther("syntax") /\ log = <<Request("request_toc", 0, 0, 0)>>

----------------------------------------------------------------------------
\* Properties of generate_content (checked under SpecRetry).

\* The upstream call gave a response with text.
Succeeds(r) == r.kind = "text"
Returned == gcPc = "done" /\ Val(outcome).out = "text"
RaisedError == gcPc = "done" /\ Val(outcome).out # "text"

\* C17: the upstream calls of one generate_content are made one after another
\* until the first success or the third failure: every call but the last
\* failed; if call k (k <= 3) succeeded generate_content returned its text
\* after exactly k calls; if generate_content raised, it raised a
\* BookGenerationError after exactly 3 calls; there is never a fourth call.
C17_UntilSuccessOrThirdFailure ==
    /\ Len(responses) <= 3
    /\ \A i \in 1..(Len(responses) - 1) : ~Succeeds(responses[i])
    /\ gcPc = "attempt" =>
          /\ Len(responses) < 3 /\ attempt_number = Len(responses) + 1
          /\ \A i \in 1..Len(responses) : ~Succeeds(responses[i])
    /\ Returned <=> (responses # <<>> /\ Succeeds(responses[Len(responses)]))
    /\ Returned => Val(outcome).v = responses[Len(responses)].v
    /\ RaisedError <=>
          (Len(responses) = 3 /\ \A i \in 1..3 : ~Succeeds(responses[i]))
    /\ RaisedError => Val(outcome).out = "BookGenerationError"

\* C17 witness: two upstream calls raised and the third returned text.
C17_Witness ==
    /\ Returned /\ Len(responses) = 3
    /\ responses[1].kind = "raises" /\ responses[2].kind = "raises"
    /\ Val(outcome).v = "Generated content from Gemini."

NoContent(r) == r.kind \in {"empty", "blocked"}

\* C18: a response that is empty or blocked counts as a failed attempt, as a
\* raised exception does: generate_content never returns on it, the attempt
\* is used up and another follows unless it was the third, and three such
\* responses end in a BookGenerationError.
C18_EmptyIsFailedAttempt ==
    /\ \A i \in 1..Len(responses) :
          NoContent(responses[i]) =>
             /\ ~Returned \/ i < Len(responses)
             /\ attempt_number >= i
             /\ i = Len(responses) =>
                   IF i < 3 THEN gcPc = "attempt" /\ attempt_number = i + 1
                   ELSE RaisedError
    /\ (Len(responses) = 3 /\ \A i \in 1..3 : NoContent(responses[i])) =>
          (RaisedError /\ Val(outcome).out = "BookGenerationError")

\* C18 witness: an empty, a blocked and an empty response, then the error.
C18_Witness ==
    /\ RaisedError
    /\ responses[1].kind = "empty" /\ responses[2].kind = "blocked"
    /\ responses[3].kind = "empty"

\* C19: when the attempts are used up, what generate_content raises is the
\* BookGenerationError wrapped around the failure of the third attempt: not
\* that of an earlier attempt, not the decorator's RetryError.
C19_LastFailureSurfaces ==
    RaisedError =>
        /\ Val(outcome).out = "BookGenerationError"
        /\ Val(outcome).v =
              "Failed to generate content with Gemini: " \o Message(responses[3])
        /\ \A i \in 1..2 :
              Message(responses[i]) # Message(responses[3]) =>
                 Val(outcome).v #
                   "Failed to generate content with Gemini: " \o Message(responses[i])

\* C19 witness: 'API unavailable', then 'Timeout', then 'Final API error'.
C19_Witness ==
    /\ RaisedError
    /\ responses[1].v = "API unavailable" /\ responses[2].v = "Timeout"
    /\ responses[3].v = "Final API error"
    /\ Val(outcome).v = "Failed to generate content with Gemini: Final API error"

----------------------------------------------------------------------------
\* Properties of the BookGenerator object used freely (checked under SpecApi).

\* C20: the session has no TableOfContents until a generate_toc has
\* completed (its write_toc is in the log), and once generate_toc has
\* assigned the output locator no later operation (generate_toc, save_toc,
\* load_toc, generate_book, in any order) changes it.
C20_LocatorAssignedOnce ==
    /\ [](IsSome(toc) => WriteTocs # <<>>)
    /\ [][IsSome(filepath) => filepath' = filepath]_vars

----------------------------------------------------------------------------
\* Properties of _clean_response (checked under SpecClean).

HasFence(t) == \E i \in 1..Len(t) : t[i] = Fence

\* A bare fence directly followed by a payload that starts with a language
\* tag: the text reads as a tagged fence around the rest of the payload.
TagAmbiguous ==
    wrapper.kind = "bare" /\ wrapper.a = <<>> /\ payload # <<>> /\ Head(payload) \in LangTags

\* C21 as stated: whatever the payload (one without fences of its own), in a
\* json fence, a python fence, a bare fence or no fence, with or without
\* whitespace between fence and payload and around the whole,
\* _clean_response returns the stripped payload.
C21_EveryPayloadEveryWrapping ==
    (passes = 1 /\ ~HasFence(payload)) => cleaned = Strip(payload)

\* C21: the same, for every wrapping but one: a bare fence with nothing
\* between it and a payload that starts with json or python.
C21_FormatTolerant ==
    (passes = 1 /\ ~HasFence(payload) /\ ~TagAmbiguous) => cleaned = Strip(payload)

\* C21 witness: a three-token payload with a newline inside, in a json fence
\* without newlines, after leading whitespace.
C21_Witness ==
    /\ passes = 1 /\ payload = <<"x", "\n", "x">>
    /\ wrapper = [kind |-> "json", pre |-> <<" ">>, a |-> <<>>, b |-> <<>>, post |-> <<>>]
    /\ cleaned = payload

\* C22: _clean_response applied to its own result returns it unchanged.
C22_Idempotent ==
    [][(passes >= 1 /\ passes' = passes + 1) => cleaned' = cleaned]_vars

----------------------------------------------------------------------------
\* Properties of the rendered contents (checked under SpecToc and Spec).

\* The number of lines to_markdown emits for the chapters before chapter i.
Offset(chs, i) == TotalItems(SubSeq(chs, 1, i - 1))

\* C26: to_markdown emits, chapter by chapter in sequence order, one line for
\* the chapter linking to chapter-<number>, directly followed by one line per
\* subchapter in order, the k-th linking to chapter-<number>-<k>; chapter_toc
\* emits those same lines for its chapter alone.
C26_MarkdownLines ==
    IsSome(toc) =>
        LET md == ToMarkdown(Chapters) IN
        /\ Len(md) = TotalItems(Chapters)
        /\ \A i \in 1..Len(Chapters) :
              LET ch == Chapters[i]
                  off == Offset(Chapters, i) IN
              /\ md[off + 1] = [n |-> ch.number, k |-> 0, text |-> ch.title]
              /\ \A k \in 1..Len(ch.subchapters) :
                    md[off + 1 + k] = [n |-> ch.number, k |-> k, text |-> ch.subchapters[k]]
              /\ ChapterLines(ch) = SubSeq(md, off + 1, off + 1 + Len(ch.subchapters))

\* C26 witness: a reloaded chapter numbered 5 with one subchapter, after a
\* chapter with two: its lines are the fourth and fifth.
C26_Witness ==
    /\ Reloaded /\ Len(Chapters) = 2
    /\ Len(Chapters[1].subchapters) = 2 /\ Chapters[2].number = 5
    /\ ToMarkdown(Chapters)[5] = [n |-> 5, k |-> 1, text |-> "S1"]

\* generate_book was the last call made and returned the path.
Complete == RunEnded /\ IsSome(result.ret)

\* The block write_chapter (idx = 0) or write_subchapter writes for a unit.
UnitBlock(ch, idx) == IF idx = 0 THEN ChapterBlock(ch) ELSE SubBlock(ch, idx)

\* A contents line and a block name the same anchor.
SameAnchor(line, b) == b.blk # "toc" /\ b.n = line.n /\ b.k = line.k

\* Every line of the contents blocks of the document has its anchor in it.
LinksResolve ==
    \A i \in 1..Len(doc) : \A j \in 1..Len(doc[i].lines) :
        \E c \in 1..Len(doc) : SameAnchor(doc[i].lines[j], doc[c])

\* C27: the link a contents block (top-level or chapter-local) renders for a
\* chapter or subchapter names the anchor write_chapter / write_subchapter
\* writes for that unit, and after a run that completed every link of the
\* document has its anchor in the document.
C27_LinksMatchAnchors ==
    /\ IsSome(toc) =>
          \A i \in 1..Len(Chapters) : \A idx \in 0..Len(Chapters[i].subchapters) :
              /\ SameAnchor(ChapterLines(Chapters[i])[idx + 1], UnitBlock(Chapters[i], idx))
              /\ SameAnchor(ToMarkdown(Chapters)[Offset(Chapters, i) + idx + 1],
                            UnitBlock(Chapters[i], idx))
    /\ Complete => LinksResolve

\* C27 witness: a completed run over a reloaded chapter numbered 5: the
\* top-level block links 5-1 and the subchapter block carries that anchor.
C27_Witness ==
    /\ Complete /\ srcOp = "reload" /\ Len(doc) >= 3
    /\ \E j \in 1..Len(doc[1].lines) : doc[1].lines[j].n = 5 /\ doc[1].lines[j].k = 1
    /\ \E c \in 1..Len(doc) : doc[c].blk = "subchapter" /\ doc[c].n = 5 /\ doc[c].k = 1

----------------------------------------------------------------------------
\* Properties of the prompts and of the document (checked under Spec).

\* C28: the prompts of a run are determined by position: the i-th prompt is
\* that of the i-th unit in generation order; an introduction prompt carries
\* its chapter's number and title and the book title, and the prompt of the
\* k-th subchapter carries '<number>.<k>', the subchapter title, the chapter's
\* number and title and the book title.
C28_PromptsByPosition ==
    InRun =>
        /\ Len(prompts) = Len(Requests)
        /\ \A i \in 1..Len(prompts) :
              LET u == AllUnits[i]
                  ch == Chapters[u.pos]
                  q == prompts[i] IN
              /\ q.book = Val(book_title) /\ q.title = ch.title /\ q.within = ch.number
              /\ q.number = ch.number /\ q.idx = u.k
              /\ IF u.k = 0
                 THEN q.kind = "intro" /\ q.subchapter = ""
                 ELSE q.kind = "sub" /\ q.subchapter = ch.subchapters[u.k]

\* C28 witness: a completed run over one chapter numbered 1 with subchapters
\* S1, S2 in the book 'My Book': 'Chapter 1', then '1.1'/'S1', then '1.2'/'S2'.
C28_Witness ==
    /\ Complete /\ book_title = Some("My Book") /\ Len(prompts) = 3
    /\ prompts[1].kind = "intro" /\ prompts[1].number = 1 /\ prompts[1].title = Chapters[1].title
    /\ prompts[2].number = 1 /\ prompts[2].idx = 1 /\ prompts[2].subchapter = "S1"
    /\ prompts[3].number = 1 /\ prompts[3].idx = 2 /\ prompts[3].subchapter = "S2"
    /\ \A i \in 1..3 : prompts[i].book = "My Book"

\* The step called write_toc, write_chapter or write_subchapter.
WroteToc == Len(log') > Len(log) /\ log'[Len(log')].ev = "write_toc"
WroteUnit == Len(log') > Len(log) /\ IsUnitWrite(log'[Len(log')])

\* The document of a completed run: the contents block, then per chapter in
\* order its block and its subchapters' blocks in order.
DocInOrder ==
    /\ Len(doc) = 1 + TotalItems(Chapters)
    /\ doc[1].blk = "toc" /\ Len(doc[1].lines) = TotalItems(Chapters)
    /\ \A i \in 1..Len(Chapters) : \A idx \in 0..Len(Chapters[i].subchapters) :
          LET b == doc[1 + Offset(Chapters, i) + idx + 1]
              ch == Chapters[i] IN
          /\ b.blk = (IF idx = 0 THEN "chapter" ELSE "subchapter")
          /\ b.n = ch.number /\ b.k = idx
          /\ b.title = (IF idx = 0 THEN ch.title ELSE ch.subchapters[idx])

\* C29: write_toc replaces the whole document, write_chapter and
\* write_subchapter append one block and keep what was there, and after a run
\* that completed the document is the contents block followed, chapter by
\* chapter in order, by the chapter's block and its subchapters' blocks, each
\* once.
C29_OverwriteThenAppend ==
    /\ [][WroteToc => (Len(doc') = 1 /\ doc'[1].blk = "toc")]_vars
    /\ [][WroteUnit => (Len(doc') = Len(doc) + 1 /\ SubSeq(doc', 1, Len(doc)) = doc)]_vars
    /\ [](Complete => DocInOrder)

\* C29 witness: a completed run over two chapters, the first with two
\* subchapters, after a reload replaced a document that the first write_toc
\* had filled.
C29_Witness ==
    /\ Complete /\ srcOp = "reload" /\ Len(Chapters) = 2
    /\ Len(Chapters[1].subchapters) = 2 /\ Len(doc) >= 5
    /\ doc[2].blk = "chapter" /\ doc[3].blk = "subchapter" /\ doc[4].blk = "subchapter"

----------------------------------------------------------------------------
\* Properties of the waits of main() (checked under SpecMain).

\* The contents block was written and saved; generate_book was not yet called.
BeforeRun == result.op \in {"save_toc", "load_toc"} /\ ~ran /\ pc = "idle"

----------------------------------------------------------------------------
\* Frame properties of the run (checked under Spec).

\* The block of the document at position j + 1 is that of the j-th unit.
BlockOfUnit(j) ==
    LET u == AllUnits[j]
        ch == Chapters[u.pos]
        b == doc[j + 1] IN
    /\ b.blk = (IF u.k = 0 THEN "chapter" ELSE "subchapter")
    /\ b.n = ch.number /\ b.k = u.k
    /\ b.title = (IF u.k = 0 THEN ch.title ELSE ch.subchapters[u.k])

\* C31: a failed run rolls nothing back: when the request for unit k raised,
\* the document is the contents block followed by exactly the blocks of units
\* 1..k-1, and the failing step left the document as it was.
C31_NoRollback ==
    /\ [](RunFailed =>
            LET k == Len(Requests) IN
            /\ Requests[k].pos = AllUnits[k].pos /\ Requests[k].k = AllUnits[k].k
            /\ Len(doc) = k
            /\ doc[1].blk = "toc" /\ doc[1].lines = ToMarkdown(Chapters)
            /\ \A j \in 1..(k - 1) : BlockOfUnit(j))
    /\ [][(InRun /\ RunFailed') => doc' = doc]_vars

\* C31 witness: the request for the third unit (the second subchapter of the
\* first chapter) raised; the chapter and the first subchapter stay written.
C31_Witness ==
    /\ RunFailed /\ Len(Requests) = 3 /\ Len(doc) = 3
    /\ doc[2].blk = "chapter" /\ doc[3].blk = "subchapter" /\ doc[3].k = 1

\* C32: load_toc without a locator or without a saved file changes nothing:
\* the chapters stay, nothing is handed to update_from_json and write_toc is
\* not called; save_toc without a TOC or without a locator writes no file.
C32_NoOps ==
    /\ [][(result'.op = "load_toc" /\ (IsNone(filepath) \/ IsNone(jsonFile))) =>
             /\ toc' = toc /\ input' = input /\ srcOp' = srcOp /\ loads' = loads
             /\ log' = log /\ doc' = doc /\ jsonFile' = jsonFile
             /\ result'.out = "ok"]_vars
    /\ [][(result'.op = "save_toc" /\ (IsNone(toc) \/ IsNone(filepath))) =>
             (jsonFile' = jsonFile /\ doc' = doc /\ log' = log)]_vars

\* C32 witness: load_toc was called with a locator and a TOC but before any
\* save_toc, so no file was there to read.
C32_Witness ==
    /\ result.op = "load_toc" /\ IsSome(filepath) /\ IsSome(toc) /\ IsNone(jsonFile)
    /\ loads = 0 /\ Len(WriteTocs) = 1

\* C33: the edit round trip is the identity: for the chapters of every
\* TableOfContents built by parse or reload, update_from_json(to_json())
\* succeeds with the same titles, subchapters and numbers in the same order,
\* and a load_toc that reads the file as save_toc wrote it leaves the
\* chapters as they were.
C33_RoundTrip ==
    /\ [](IsSome(toc) => UpdateFromJson(ToJson(Chapters)) = Ok(Chapters))
    /\ [][(IsSome(toc) /\ loads' = loads + 1 /\ jsonFile' = Some(ToJson(Chapters))) =>
             (result'.out = "ok" /\ toc' = toc)]_vars

\* C33 witness: after an edit installed a chapter numbered 5, a second
\* load_toc read back exactly the saved form of those chapters.
C33_Witness ==
    /\ result.op = "load_toc" /\ result.out = "ok" /\ loads = 2
    /\ IsSome(toc) /\ Len(Chapters) = 1
    /\ Chapters[1].number = 5 /\ Len(Chapters[1].subchapters) = 1
    /\ input = ToJson(Chapters) /\ jsonFile = Some(ToJson(Chapters))

----------------------------------------------------------------------------
\* Properties of the progress events (checked under Spec).

\* The positions in the log of the progress events with a fraction >= 0.
Fractions == {i \in 1..Len(log) : log[i].ev = "progress" /\ log[i].num >= 0}

\* The units written before the event at position i of the log.
WrittenBefore(i) == Len(SelectSeq(SubSeq(log, 1, i - 1), IsUnitWrite))

\* C34: within a run every progress event with a non-negative fraction
\* reports units already written / total units at the moment it is emitted
\* (for a run with units), and these fractions never decrease and lie in
\* [0, 1].
C34_FractionsAreUnitsWritten ==
    InRun =>
        /\ \A i \in Fractions :
              /\ log[i].den > 0 /\ log[i].num <= log[i].den
              /\ total_items > 0 => log[i].num * total_items = WrittenBefore(i) * log[i].den
        /\ \A i, j \in Fractions : i < j => log[i].num * log[j].den <= log[j].num * log[i].den

\* C34 witness: a completed run of four units that reported 2/4 before its
\* third unit.
C34_Witness ==
    /\ Complete /\ total_items = 4
    /\ \E i \in Fractions : log[i].num = 2 /\ log[i].den = 4 /\ WrittenBefore(i) = 2

----------------------------------------------------------------------------
\* Properties of the run with its attempts (checked under SpecLive).

\* C35: generate_book always ends: whatever the content source does within
\* the three attempts of each request, a run that has started ends Complete or
\* Failed, having made at most one request per unit and at most
\* 3 * total_units upstream attempts.
C35_RunTerminates ==
    /\ [](attempts <= StopAfterAttempt * calls)
    /\ [](ran => (calls <= total_items /\ attempts <= StopAfterAttempt * total_items))
    /\ [](RunEnded => (Complete \/ RunFailed))
    /\ (ran ~> RunEnded)

\* C35 witness: a run of three units completed after every request needed
\* its third attempt: nine upstream attempts.
C35_Witness ==
    /\ Complete /\ total_items = 3 /\ calls = 3
    /\ attempts = StopAfterAttempt * total_items

----------------------------------------------------------------------------
\* Further properties of the run (checked under Spec, SpecMain and SpecLive).

\* C36: for a TOC without chapters generate_book divides by nothing (no
\* progress event has denominator 0), requests no content and writes no
\* chapter or subchapter, emits the start event 0.0 and then the success
\* event 1.0 and nothing else, and returns the output path.
C36_EmptyToc ==
    (InRun /\ Len(Chapters) = 0) =>
        /\ total_items = 0 /\ pc \in {"finish", "idle"}
        /\ \A i \in 1..Len(log) : log[i].den # 0
        /\ Requests = <<>> /\ UnitWrites = <<>> /\ prompts = <<>>
        /\ Len(doc) = 1 /\ doc[1].blk = "toc" /\ doc[1].lines = <<>>
        /\ RunEnded =>
              /\ ProgressEvents = <<Progress(0, 1), Progress(1, 1)>>
              /\ IsSome(filepath) /\ result.ret = filepath /\ result.out = "ok"

\* C36 witness: generate_book returned for a TOC that a reload of an empty
\* array had emptied.
C36_Witness ==
    /\ RunEnded /\ toc = Some(<<>>) /\ srcOp = "reload" /\ input = JArray(<<>>)
    /\ result.ret = filepath

\* C37: in the flow of main() the overwriting write of the contents block
\* happens only while no chapter or subchapter block is written: once a unit
\* was written write_toc is not called again, and no step shortens or alters
\* the blocks already in the document.
C37_TocWrittenBeforeChapters ==
    /\ [][UnitWrites # <<>> => ~WroteToc]_vars
    /\ [][Len(doc) > 1 => (Len(doc') >= Len(doc) /\ SubSeq(doc', 1, Len(doc)) = doc)]_vars
    /\ [](\A i, j \in 1..Len(log) : (IsUnitWrite(log[i]) /\ log[j].ev = "write_toc") => j < i)

\* C37 witness: a run completed after generate_toc and the reload both wrote
\* the contents block; both writes precede the first chapter block.
C37_Witness ==
    /\ Complete /\ Len(WriteTocs) = 2 /\ Len(doc) >= 3 /\ inputs # <<>>
    /\ log[2].ev = "write_toc" /\ log[3].ev = "write_toc"

\* C38: generate_book never changes the TableOfContents, the book title or
\* the output locator: every step of the call, from its precondition to its
\* return or its except clause, leaves the chapters (titles, subchapters,
\* numbers), the title and the locator as they were.
C38_RunKeepsSession ==
    [][result'.op = "generate_book" =>
         (toc' = toc /\ book_title' = book_title /\ filepath' = filepath)]_vars

\* C38 witness: a run over reloaded chapters failed at its second request;
\* the edited number 5, the title and the locator are still there.
C38_Witness ==
    /\ RunFailed /\ Len(Requests) = 2 /\ srcOp = "reload"
    /\ Chapters[1].number = 5 /\ book_title = Some("My Book")
    /\ filepath = Some(GetFilepath("My Book"))

----------------------------------------------------------------------------
\* Prompts and generated content (checked under SpecLive).

\* The prompts of a run over chs for the book `book`, from the title and the
\* chapters alone.
RECURSIVE PromptsOf(_, _)
PromptsOf(chs, book) ==
    IF chs = <<>> THEN <<>>
    ELSE LET ch == Head(chs) IN
         <<[kind |-> "intro", number |-> ch.number, idx |-> 0, subchapter |-> "",
            within |-> ch.number, title |-> ch.title, book |-> book]>>
         \o [k \in 1..Len(ch.subchapters) |->
               [kind |-> "sub", number |-> ch.number, idx |-> k, subchapter |-> ch.subchapters[k],
                within |-> ch.number, title |-> ch.title, book |-> book]]
         \o PromptsOf(Tail(chs), book)

\* C39: the prompts generate_book issues are a function of the book title and
\* the TOC only: whatever texts the content source returned, and after
\* however many attempts, the prompts issued so far are the first ones of the
\* sequence the title and the chapters determine, and all of it when the run
\* completed; so two runs that do not fail and have the same title and TOC
\* issue the same prompts.
C39_PromptsIgnoreContent ==
    InRun =>
        LET expected == PromptsOf(Chapters, Val(book_title)) IN
        /\ Len(prompts) <= Len(expected)
        /\ prompts = SubSeq(expected, 1, Len(prompts))
        /\ Complete => prompts = expected

\* C39 witness: a run of three units completed although the content source
\* answered the last request with another text, at its second attempt.
C39_Witness ==
    /\ Complete /\ Len(prompts) = 3 /\ Len(responses) = 2
    /\ Val(outcome).v = "Other generated content."
    /\ prompts[3].kind = "sub"

====
